---- MODULE Spec2Model ----
(***************************************************************************)
(* Model of the key-integrity pipeline of the Lido node-operator key       *)
(* checker: the persistent key cache (src/cache.py), the roster helpers    *)
(* (src/helpers.py) and the duplicate detector (src/cli.py).               *)
(*                                                                         *)
(* Bytes are sequences of numbers 0..255, Python strings are sequences of  *)
(* one-character strings, and a dict is a function on its field names.     *)
(***************************************************************************)
EXTENDS Integers, Sequences, FiniteSets, TLC

VARIABLES
    cache,      \* the dbm store: store key (string) -> stored value
    op,         \* the cache operation that has just run, or "idle"
    wc,         \* its withdrawal credentials argument (bytes)
    operators,  \* its roster argument
    res,        \* "ok", or "StaleCache" when check_wc called exit()
    cached,     \* get_keys_from_cache: operators_cached_keys
    uncached,   \* get_keys_from_cache: operators_new_keys
    lookups,    \* the store keys cache.get() was asked for, in order
    pre,        \* the store as the operation found it
    saved,      \* the roster of the save_keys_to_cache this get re-reads
    mStage,     \* merge_keys: "idle", or "done" when a call has ended
    mLists,     \* merge_keys: its argument
    mOut,       \* merge_keys: its outcome
    dOps,       \* duplicate detector: the roster (annotated by the scan)
    dOrig,      \* find_duplicates: original_op
    dKey,       \* find_duplicates: the probe key
    dOut,       \* find_duplicates: duplicates_found
    dStage,     \* duplicate detector: "loaded", "probed" or "scanned"
    sPc,        \* stepwise cache operation: where its control is
    sOp,        \* stepwise cache operation: "clear", "get" or "save"
    sWc,        \* stepwise cache operation: its withdrawal credentials
    sRoster,    \* stepwise cache operation: the roster of the registry
    sTodo,      \* stepwise save: the writes still to be made
    sOpen,      \* the number of store handles that are open
    sRes,       \* stepwise cache operation: how its block was left
    sFirst,     \* the store as the first run of the operation found it
    sSecond,    \* the store as the second run of the save found it
    sRun,       \* "first", "retry" (after an interrupt) or "repeat"
    fStage,     \* validate_network_keys_fast: "idle", or "done" after a run
    fClear,     \* its clear_cache flag
    fWc,        \* the live withdrawal credentials
    fOperators, \* the roster the runs load from the registry
    fFound,     \* the wc entry of the store as the run found it, if any
    fStore,     \* the store as get_keys_from_cache found it
    fRes,       \* "ok", or "StaleCache" when the run ended in exit()
    fUsed,      \* operators_used_keys
    fUnused,    \* operators_unused_keys
    fCached,    \* operators_cached_keys
    fUncached,  \* operators_uncached_keys
    fValidated, \* operators_validated_keys
    fMerged,    \* merged_keys
    written     \* store key of a record -> the credentials of the
                \* save_keys_to_cache call that wrote it

vars == <<cache, op, wc, operators, res, cached, uncached, lookups, pre, saved,
          mStage, mLists, mOut, dOps, dOrig, dKey, dOut, dStage,
          sPc, sOp, sWc, sRoster, sTodo, sOpen, sRes, sFirst, sSecond, sRun,
          fStage, fClear, fWc, fOperators, fFound, fStore, fRes, fUsed, fUnused,
          fCached, fUncached, fValidated, fMerged, written>>

cacheVars == <<cache, op, wc, operators, res, cached, uncached, lookups, pre, saved>>
mergeVars == <<mStage, mLists, mOut>>
dupVars == <<dOps, dOrig, dKey, dOut, dStage>>
stepVars == <<sPc, sOp, sWc, sRoster, sTodo, sOpen, sRes, sFirst, sSecond, sRun>>
fastVars == <<fStage, fClear, fWc, fOperators, fFound, fStore, fRes, fUsed, fUnused,
              fCached, fUncached, fValidated, fMerged>>

histVars == <<written>>

(***************************************************************************)
(* Bounds and data.                                                        *)
(***************************************************************************)
\* The most keys one roster holds, over all its operators.
MaxKeys == 2

\* The most rosters one merge_keys call is given.
MaxLists == 3

\* The most used keys a roster of the registry holds, over all its operators.
MaxUsed == 1

\* Withdrawal credentials, public keys and deposit signatures (shortened).
WCs == {<<0, 1>>, <<1, 0>>}
PubKeys == {<<1, 16>>, <<17, 0>>}
Sigs == {<<5>>, <<80>>}

\* The verdict of the signature validator on a key: one signature verifies
\* for each public key.
ValidSignature(key, depositSignature) ==
    \/ key = <<1, 16>> /\ depositSignature = <<5>>
    \/ key = <<17, 0>> /\ depositSignature = <<80>>

\* What the keys of a roster are drawn from: public key, deposit signature
\* and the validator's verdict on them.
KeyChoices ==
    {[key |-> k, depositSignature |-> s, valid_signature |-> ValidSignature(k, s)] :
        k \in PubKeys, s \in Sigs}

\* The operators of the registry: id and name.
OperatorsData == <<[id |-> 0, name |-> "A"], [id |-> 1, name |-> "B"]>>

NumOps == Len(OperatorsData)

(***************************************************************************)
(* bytes.hex(), bytes.fromhex() and str.encode().                          *)
(***************************************************************************)
HexDigits == <<"0", "1", "2", "3", "4", "5", "6", "7",
               "8", "9", "a", "b", "c", "d", "e", "f">>

\* bytes.hex(): two lower-case digits per byte, high nibble first.
Hex(b) ==
    [i \in 1..(2 * Len(b)) |->
        IF i % 2 = 1 THEN HexDigits[(b[(i + 1) \div 2] \div 16) + 1]
                     ELSE HexDigits[(b[i \div 2] % 16) + 1]]

HexVal(c) == CHOOSE d \in 0..15 : HexDigits[d + 1] = c

\* bytes.fromhex(): one byte per pair of digits.
FromHex(s) ==
    [i \in 1..(Len(s) \div 2) |-> 16 * HexVal(s[2 * i - 1]) + HexVal(s[2 * i])]

\* str.encode() of a hex string: the ASCII code of every digit.
Encode(s) ==
    [i \in 1..Len(s) |->
        IF HexVal(s[i]) < 10 THEN 48 + HexVal(s[i]) ELSE 87 + HexVal(s[i])]

(***************************************************************************)
(* The store.                                                              *)
(***************************************************************************)
\* The store key of the withdrawal-credentials entry: "wc".
WcKey == <<"w", "c">>

EmptyStore == <<>>

\* cache[k] = v
Put(c, k, v) == [x \in (DOMAIN c) \cup {k} |-> IF x = k THEN v ELSE c[x]]

\* json.dumps({**key, "key": hex, "depositSignature": hex}): the JSON object.
serialize_key(key) ==
    [f \in DOMAIN key |->
        IF f \in {"key", "depositSignature"} THEN Hex(key[f]) ELSE key[f]]

\* json.loads, then "key" and "depositSignature" back to bytes.
parse_key(string) ==
    [f \in DOMAIN string |->
        IF f \in {"key", "depositSignature"} THEN FromHex(string[f]) ELSE string[f]]

\* check_wc without its test for an empty store.
check_wc_no_empty_test(c, w) ==
    WcKey \in DOMAIN c /\ c[WcKey] = Encode(Hex(w))

\* TRUE when check_wc returns, FALSE when it calls exit().
check_wc(c, w) ==
    LET is_empty_cache == Cardinality(DOMAIN c) = 0
        is_same_wc == WcKey \in DOMAIN c /\ c[WcKey] = Encode(Hex(w))
    IN  ~(~is_empty_cache /\ ~is_same_wc)

\* clear_keys_cache deleting the key records and keeping the wc entry.
clear_keys_keep_wc(c) == [x \in (DOMAIN c) \cap {WcKey} |-> c[x]]

\* clear_keys_cache: delete every key of the store.
clear_keys_cache(c) == [x \in (DOMAIN c) \ (DOMAIN c) |-> c[x]]

\* split_keys appending to new_keys only the keys that have no record.
RECURSIVE split_keys_drop_stale(_, _, _)
split_keys_drop_stale(c, keys, acc) ==
    IF keys = <<>> THEN acc
    ELSE
        LET key == Head(keys)
            public_key == Hex(key.key)
            found == public_key \in DOMAIN c
            cached_key == parse_key(c[public_key])
            is_valid_cache ==
                found /\ cached_key.depositSignature = key.depositSignature
        IN  split_keys_drop_stale(c, Tail(keys),
                [cached_keys |->
                    IF is_valid_cache
                    THEN Append(acc.cached_keys,
                            ("valid_signature" :> cached_key.valid_signature) @@ key)
                    ELSE acc.cached_keys,
                 new_keys |->
                    IF found THEN acc.new_keys
                    ELSE Append(acc.new_keys, key),
                 lookups |-> Append(acc.lookups, public_key)])

\* split_keys taking any record for a valid hit, whatever its signature.
RECURSIVE split_keys_any_record(_, _, _)
split_keys_any_record(c, keys, acc) ==
    IF keys = <<>> THEN acc
    ELSE
        LET key == Head(keys)
            public_key == Hex(key.key)
            found == public_key \in DOMAIN c
            cached_key == parse_key(c[public_key])
            is_valid_cache == found
        IN  split_keys_any_record(c, Tail(keys),
                [cached_keys |->
                    IF is_valid_cache
                    THEN Append(acc.cached_keys,
                            ("valid_signature" :> cached_key.valid_signature) @@ key)
                    ELSE acc.cached_keys,
                 new_keys |->
                    IF is_valid_cache THEN acc.new_keys
                    ELSE Append(acc.new_keys, key),
                 lookups |-> Append(acc.lookups, public_key)])

\* split_keys marking every cached key valid instead of reading the record.
RECURSIVE split_keys_assume_valid(_, _, _)
split_keys_assume_valid(c, keys, acc) ==
    IF keys = <<>> THEN acc
    ELSE
        LET key == Head(keys)
            public_key == Hex(key.key)
            found == public_key \in DOMAIN c
            cached_key == parse_key(c[public_key])
            is_valid_cache ==
                found /\ cached_key.depositSignature = key.depositSignature
        IN  split_keys_assume_valid(c, Tail(keys),
                [cached_keys |->
                    IF is_valid_cache
                    THEN Append(acc.cached_keys, ("valid_signature" :> TRUE) @@ key)
                    ELSE acc.cached_keys,
                 new_keys |->
                    IF is_valid_cache THEN acc.new_keys
                    ELSE Append(acc.new_keys, key),
                 lookups |-> Append(acc.lookups, public_key)])

\* The inner loop of get_keys_from_cache over one operator's keys.
RECURSIVE split_keys(_, _, _)
split_keys(c, keys, acc) ==
    IF keys = <<>> THEN acc
    ELSE
        LET key == Head(keys)
            public_key == Hex(key.key)
            found == public_key \in DOMAIN c
            cached_key == parse_key(c[public_key])
            is_valid_cache ==
                found /\ cached_key.depositSignature = key.depositSignature
        IN  split_keys(c, Tail(keys),
                [cached_keys |->
                    IF is_valid_cache
                    THEN Append(acc.cached_keys,
                            ("valid_signature" :> cached_key.valid_signature) @@ key)
                    ELSE acc.cached_keys,
                 new_keys |->
                    IF is_valid_cache THEN acc.new_keys
                    ELSE Append(acc.new_keys, key),
                 lookups |-> Append(acc.lookups, public_key)])

\* {**operator, "keys": keys}
WithKeys(operator, keys) ==
    [f \in (DOMAIN operator) \cup {"keys"} |->
        IF f = "keys" THEN keys ELSE operator[f]]

\* The outer loop of get_keys_from_cache.
RECURSIVE split_operators(_, _, _)
split_operators(c, ops, acc) ==
    IF ops = <<>> THEN acc
    ELSE
        LET operator == Head(ops)
            s == split_keys(c, operator.keys,
                    [cached_keys |-> <<>>, new_keys |-> <<>>, lookups |-> acc.lookups])
        IN  split_operators(c, Tail(ops),
                [cached |-> Append(acc.cached, WithKeys(operator, s.cached_keys)),
                 uncached |-> Append(acc.uncached, WithKeys(operator, s.new_keys)),
                 lookups |-> s.lookups])

get_keys_from_cache(c, w, ops) ==
    IF ~check_wc(c, w)
    THEN [res |-> "StaleCache", cached |-> <<>>, uncached |-> <<>>, lookups |-> <<>>]
    ELSE
        LET s == split_operators(c, ops,
                    [cached |-> <<>>, uncached |-> <<>>, lookups |-> <<>>])
        IN  [res |-> "ok", cached |-> s.cached, uncached |-> s.uncached,
             lookups |-> s.lookups]

\* The keys of a roster in the order the loops of the code visit them.
RECURSIVE AllKeys(_)
AllKeys(ops) ==
    IF ops = <<>> THEN <<>> ELSE Head(ops).keys \o AllKeys(Tail(ops))

RECURSIVE write_keys(_, _)
write_keys(c, keys) ==
    IF keys = <<>> THEN c
    ELSE write_keys(Put(c, Hex(Head(keys).key), serialize_key(Head(keys))),
                    Tail(keys))

\* save_keys_to_cache writing the wc entry before it runs check_wc.
save_keys_write_wc_first(c, w, ops) ==
    LET c1 == Put(c, WcKey, Encode(Hex(w)))
    IN  IF ~check_wc(c1, w)
        THEN [res |-> "StaleCache", cache |-> c1]
        ELSE [res |-> "ok", cache |-> write_keys(c1, AllKeys(ops))]

\* save_keys_to_cache writing the wc entry only when there are keys to save.
save_keys_wc_with_keys_only(c, w, ops) ==
    IF ~check_wc(c, w)
    THEN [res |-> "StaleCache", cache |-> c]
    ELSE [res |-> "ok",
          cache |-> IF AllKeys(ops) = <<>> THEN c
                    ELSE write_keys(Put(c, WcKey, Encode(Hex(w))), AllKeys(ops))]

\* save_keys_to_cache without its call of check_wc.
save_keys_unchecked(c, w, ops) ==
    [res |-> "ok",
     cache |-> write_keys(Put(c, WcKey, Encode(Hex(w))), AllKeys(ops))]

save_keys_to_cache(c, w, ops) ==
    IF ~check_wc(c, w)
    THEN [res |-> "StaleCache", cache |-> c]
    ELSE [res |-> "ok",
          cache |-> write_keys(Put(c, WcKey, Encode(Hex(w))), AllKeys(ops))]

\* The writers of the records once save_keys_to_cache(chainId, w, ops) has
\* written its keys.
record_writers(wr, w, ops) ==
    LET new == {Hex(AllKeys(ops)[i].key) : i \in 1..Len(AllKeys(ops))}
    IN  [k \in (DOMAIN wr) \cup new |-> IF k \in new THEN w ELSE wr[k]]

\* keys_len
RECURSIVE keys_len(_)
keys_len(ops) ==
    IF ops = <<>> THEN 0 ELSE Len(Head(ops).keys) + keys_len(Tail(ops))

\* open_cache_file: dbm.open hands out one more open handle.
open_cache_file(handles) == handles + 1

\* A with block that closes its handle only when its body ran to the end.
leave_with_on_return_only(handles, raised) ==
    IF raised THEN handles ELSE handles - 1

\* Leaving "with open_cache_file(chainId) as cache": the handle is closed,
\* whether the body ran to its end or an exception (SystemExit from exit(),
\* an interrupt) is passing through.
leave_with(handles, raised) == handles - 1

\* The writes of save_keys_to_cache with the wc entry written after the keys.
save_writes_wc_last(w, ops) ==
    [i \in 1..Len(AllKeys(ops)) |->
        [k |-> Hex(AllKeys(ops)[i].key), v |-> serialize_key(AllKeys(ops)[i])]]
    \o <<[k |-> WcKey, v |-> Encode(Hex(w))]>>

\* The writes save_keys_to_cache makes once check_wc has returned, in order:
\* cache["wc"], then one cache[key.hex()] for each key of each operator.
save_writes(w, ops) ==
    <<[k |-> WcKey, v |-> Encode(Hex(w))]>> \o
    [i \in 1..Len(AllKeys(ops)) |->
        [k |-> Hex(AllKeys(ops)[i].key), v |-> serialize_key(AllKeys(ops)[i])]]

(***************************************************************************)
(* merge_keys.                                                             *)
(***************************************************************************)
\* [key for operators in lists for key in operators[index]["keys"]]
RECURSIVE merged_operator_keys(_, _)
merged_operator_keys(lists, index) ==
    IF lists = <<>> THEN <<>>
    ELSE Head(lists)[index].keys \o merged_operator_keys(Tail(lists), index)

\* merge_keys concatenating the key lists from the last roster to the first.
merge_keys_reversed(lists) ==
    IF Len(lists) = 0 THEN [error |-> "IndexError", value |-> <<>>]
    ELSE IF \E l \in 1..Len(lists) : Len(lists[l]) < Len(lists[1])
    THEN [error |-> "IndexError", value |-> <<>>]
    ELSE [error |-> "",
          value |->
            [index \in 1..Len(lists[1]) |->
                WithKeys(lists[1][index],
                    merged_operator_keys(
                        [l \in 1..Len(lists) |-> lists[Len(lists) + 1 - l]],
                        index))]]

\* merge_keys: the merged roster, or the IndexError that lists[0] raises on
\* no roster and operators[index] raises on a roster shorter than the first.
merge_keys(lists) ==
    IF Len(lists) = 0 THEN [error |-> "IndexError", value |-> <<>>]
    ELSE IF \E l \in 1..Len(lists) : Len(lists[l]) < Len(lists[1])
    THEN [error |-> "IndexError", value |-> <<>>]
    ELSE [error |-> "",
          value |->
            [index \in 1..Len(lists[1]) |->
                WithKeys(lists[1][index], merged_operator_keys(lists, index))]]

(***************************************************************************)
(* The duplicate detector of cli.py.                                       *)
(***************************************************************************)
\* original_op == "all"
All == [all |-> TRUE]

\* The inner loop of find_duplicates over the keys of one operator.
RECURSIVE scan_operator_keys(_, _, _, _)
scan_operator_keys(operator, keys, original_op, key) ==
    IF keys = <<>> THEN <<>>
    ELSE
        LET second_key == Head(keys)
            rest == scan_operator_keys(operator, Tail(keys), original_op, key)
        IN  IF key.key = second_key.key
            THEN IF original_op = All
                 THEN <<[op |-> operator, key |-> second_key]>> \o rest
                 ELSE IF original_op.id = operator.id /\ key.index = second_key.index
                 THEN rest
                 ELSE <<[op |-> operator, key |-> second_key]>> \o rest
            ELSE rest

\* find_duplicates leaving out every key of the original operator.
RECURSIVE find_duplicates_other_operators(_, _, _)
find_duplicates_other_operators(ops, original_op, key) ==
    IF ops = <<>> THEN <<>>
    ELSE (IF original_op # All /\ original_op.id = Head(ops).id
          THEN <<>>
          ELSE scan_operator_keys(Head(ops), Head(ops).keys, original_op, key))
         \o find_duplicates_other_operators(Tail(ops), original_op, key)

\* find_duplicates reporting each pair once, from its first slot only.
RECURSIVE find_duplicates_later_slots(_, _, _)
find_duplicates_later_slots(ops, original_op, key) ==
    IF ops = <<>> THEN <<>>
    ELSE (IF original_op # All /\ Head(ops).id < original_op.id
          THEN <<>>
          ELSE SelectSeq(
                  scan_operator_keys(Head(ops), Head(ops).keys, original_op, key),
                  LAMBDA d : \/ original_op = All
                             \/ d.op.id > original_op.id
                             \/ d.key.index > key.index))
         \o find_duplicates_later_slots(Tail(ops), original_op, key)

\* find_duplicates: the matches in the order the roster is scanned.
RECURSIVE find_duplicates(_, _, _)
find_duplicates(ops, original_op, key) ==
    IF ops = <<>> THEN <<>>
    ELSE scan_operator_keys(Head(ops), Head(ops).keys, original_op, key)
         \o find_duplicates(Tail(ops), original_op, key)

\* The body of the loop of validate_network_keys for the key at (op_n, key_n):
\* the roster with that key annotated.
check_key(ops, op_n, key_n) ==
    LET operator == ops[op_n]
        key == operator.keys[key_n]
        duplicates == find_duplicates(ops, operator, key)
        checked ==
            [f \in (DOMAIN key) \cup {"valid_signature", "duplicate", "duplicates"} |->
                IF f = "valid_signature"
                THEN ValidSignature(key.key, key.deposit_signature)
                ELSE IF f = "duplicate" THEN duplicates # <<>>
                ELSE IF f = "duplicates"
                THEN [n \in 1..Len(duplicates) |->
                        [op_id |-> duplicates[n].op.id,
                         op_name |-> duplicates[n].op.name,
                         index |-> duplicates[n].key.index,
                         approved |-> duplicates[n].op.stakingLimit # 0,
                         used |-> duplicates[n].key.used]]
                ELSE key[f]]
    IN  [ops EXCEPT ![op_n] =
            WithKeys(operator, [operator.keys EXCEPT ![key_n] = checked])]

\* The loops of validate_network_keys from the key at (op_n, key_n) on.
RECURSIVE check_keys(_, _, _)
check_keys(ops, op_n, key_n) ==
    IF op_n > Len(ops) THEN ops
    ELSE IF key_n > Len(ops[op_n].keys) THEN check_keys(ops, op_n + 1, 1)
    ELSE check_keys(check_key(ops, op_n, key_n), op_n, key_n + 1)

(***************************************************************************)
(* validate_network_keys_fast (src/lido_validate_keys.py).                 *)
(***************************************************************************)
\* [key for key in keys if callback(key)] for the two callbacks of the
\* pipeline: key["used"] == True (want_used) and key["used"] != True.
RECURSIVE select_keys(_, _)
select_keys(keys, want_used) ==
    IF keys = <<>> THEN <<>>
    ELSE (IF (Head(keys).used = TRUE) = want_used THEN <<Head(keys)>> ELSE <<>>)
         \o select_keys(Tail(keys), want_used)

\* filter_keys with a callback that accepts every key.
filter_keys_every_key(ops, want_used) == ops

\* filter_keys(operators, lambda key: key["used"] == True) when want_used,
\* filter_keys(operators, lambda key: key["used"] != True) otherwise.
filter_keys(ops, want_used) ==
    [p \in 1..Len(ops) |-> WithKeys(ops[p], select_keys(ops[p].keys, want_used))]

\* lido.validate_keys_multi: the keys it was given, each with the verdict.
validate_keys_multi(ops) ==
    [p \in 1..Len(ops) |->
        WithKeys(ops[p],
                 [i \in 1..Len(ops[p].keys) |->
                    ("valid_signature" :>
                        ValidSignature(ops[p].keys[i].key,
                                       ops[p].keys[i].depositSignature))
                    @@ ops[p].keys[i]])]

\* The run up to its end or to the exit() of check_wc: the store it leaves
\* and its local variables (<<>> for those it did not come to assign).
validate_network_keys_fast(c, ops, w, clear_cache) ==
    LET c0 == IF clear_cache THEN clear_keys_cache(c) ELSE c
        operators_used_keys == filter_keys(ops, TRUE)
        operators_unused_keys == filter_keys(ops, FALSE)
        g == get_keys_from_cache(c0, w, operators_unused_keys)
        operators_validated_keys == validate_keys_multi(g.uncached)
        s == save_keys_to_cache(c0, w, operators_validated_keys)
        stale == [res |-> "StaleCache", cache |-> c0, store |-> c0,
                  used |-> operators_used_keys, unused |-> operators_unused_keys,
                  cached |-> <<>>, uncached |-> <<>>, validated |-> <<>>,
                  merged |-> <<>>]
    IN  IF g.res # "ok" THEN stale
        ELSE IF s.res # "ok"
        THEN [stale EXCEPT !.cached = g.cached, !.uncached = g.uncached,
                           !.validated = operators_validated_keys]
        ELSE [res |-> "ok", cache |-> s.cache, store |-> c0,
              used |-> operators_used_keys, unused |-> operators_unused_keys,
              cached |-> g.cached, uncached |-> g.uncached,
              validated |-> operators_validated_keys,
              merged |-> merge_keys(<<operators_used_keys, g.cached,
                                      operators_validated_keys>>).value]

(***************************************************************************)
(* Rosters.                                                                *)
(***************************************************************************)
LiveKey(i, v) ==
    [index |-> i - 1, key |-> v.key, depositSignature |-> v.depositSignature,
     used |-> FALSE]

ValidatedKey(i, v) ==
    [index |-> i - 1, key |-> v.key, depositSignature |-> v.depositSignature,
     used |-> FALSE, valid_signature |-> v.valid_signature]

\* One list of key choices for each of the first n operators, budget keys at
\* most in all.
RECURSIVE RosterChoicesOf(_, _)
RosterChoicesOf(n, budget) ==
    IF n = 0 THEN {<<>>}
    ELSE UNION {{Append(rest, l) :
                    rest \in RosterChoicesOf(n - 1, budget - m),
                    l \in [1..m -> KeyChoices]} : m \in 0..budget}

RosterChoices == RosterChoicesOf(NumOps, MaxKeys)

\* The roster as validate_keys_multi returns it: every key with valid_signature.
ValidatedRoster(ch) ==
    [p \in 1..NumOps |->
        WithKeys(OperatorsData[p],
                 [i \in 1..Len(ch[p]) |-> ValidatedKey(i, ch[p][i])])]

\* The roster as the registry gives it.
LiveRoster(ch) ==
    [p \in 1..NumOps |->
        WithKeys(OperatorsData[p],
                 [i \in 1..Len(ch[p]) |-> LiveKey(i, ch[p][i])])]

ValidatedRosters == {ValidatedRoster(ch) : ch \in RosterChoices}
LiveRosters == {LiveRoster(ch) : ch \in RosterChoices}

\* A roster without the valid_signature annotation of its keys.
Strip(ops) ==
    [p \in 1..Len(ops) |->
        WithKeys(ops[p],
                 [i \in 1..Len(ops[p].keys) |->
                    [f \in (DOMAIN ops[p].keys[i]) \ {"valid_signature"} |->
                        ops[p].keys[i][f]]])]

(***************************************************************************)
(* The cache operations.  One call runs at a time; Return is the caller    *)
(* taking the outcome.                                                     *)
(***************************************************************************)
CacheIdle ==
    /\ op = "idle" /\ wc = <<>> /\ operators = <<>> /\ res = "ok"
    /\ cached = <<>> /\ uncached = <<>> /\ lookups = <<>>
    /\ pre = EmptyStore /\ saved = <<>>

CacheInit == cache = EmptyStore /\ written = <<>> /\ CacheIdle

Clear ==
    /\ op = "idle"
    /\ cache' = clear_keys_cache(cache)
    /\ op' = "clear" /\ res' = "ok" /\ pre' = cache
    /\ UNCHANGED <<wc, operators, cached, uncached, lookups, saved>>

GetMany(w, r) ==
    /\ LET g == get_keys_from_cache(cache, w, r)
       IN  /\ res' = g.res
           /\ cached' = g.cached
           /\ uncached' = g.uncached
           /\ lookups' = g.lookups
    /\ op' = "get" /\ wc' = w /\ operators' = r /\ pre' = cache
    /\ saved' = IF op = "save" THEN operators ELSE <<>>
    /\ UNCHANGED cache

SaveMany(w, r) ==
    /\ LET s == save_keys_to_cache(cache, w, r)
       IN  /\ res' = s.res
           /\ cache' = s.cache
    /\ op' = "save" /\ wc' = w /\ operators' = r /\ pre' = cache
    /\ UNCHANGED <<cached, uncached, lookups, saved>>

Return ==
    /\ op # "idle"
    /\ op' = "idle" /\ wc' = <<>> /\ operators' = <<>> /\ res' = "ok"
    /\ cached' = <<>> /\ uncached' = <<>> /\ lookups' = <<>>
    /\ pre' = EmptyStore /\ saved' = <<>>
    /\ UNCHANGED cache

\* A call of get_keys_from_cache with any credentials and roster.
Get == op = "idle" /\ \E w \in WCs, r \in LiveRosters : GetMany(w, r)

\* The call of get_keys_from_cache that reads back what was just saved.
GetSaved == op = "save" /\ res = "ok" /\ GetMany(wc, Strip(operators))

Save == op = "idle" /\ \E w \in WCs, r \in ValidatedRosters : SaveMany(w, r)

(***************************************************************************)
(* Calls of merge_keys.                                                    *)
(***************************************************************************)
\* The keys the rosters given to merge_keys are made of.
MergeKeyLists ==
    {<<>>,
     <<LiveKey(1, [key |-> <<1, 16>>, depositSignature |-> <<5>>])>>,
     <<LiveKey(2, [key |-> <<17, 0>>, depositSignature |-> <<80>>])>>,
     <<LiveKey(1, [key |-> <<1, 16>>, depositSignature |-> <<5>>]),
       LiveKey(2, [key |-> <<17, 0>>, depositSignature |-> <<80>>])>>}

\* Rosters of the first operator, of the second, and of both.
MergeRosters ==
    UNION {{[p \in 1..Len(shape) |-> WithKeys(OperatorsData[shape[p]], ks[p])] :
                ks \in [1..Len(shape) -> MergeKeyLists]} :
           shape \in {<<1>>, <<2>>, <<1, 2>>}}

MergeInputs == UNION {[1..n -> MergeRosters] : n \in 0..MaxLists}

NoOutcome == [error |-> "", value |-> <<>>]

MergeIdle == mStage = "idle" /\ mLists = <<>> /\ mOut = NoOutcome

Merge(lists) ==
    /\ mLists' = lists
    /\ mOut' = merge_keys(lists)
    /\ mStage' = "done"

MergeCall == mStage = "idle" /\ \E lists \in MergeInputs : Merge(lists)

MergeReturn ==
    /\ mStage = "done"
    /\ mStage' = "idle" /\ mLists' = <<>> /\ mOut' = NoOutcome

(***************************************************************************)
(* Calls of the duplicate detector.                                        *)
(***************************************************************************)
\* The operators as load_network_data builds them.
NetworkOperators ==
    <<[id |-> 0, name |-> "A", stakingLimit |-> 5],
      [id |-> 1, name |-> "B", stakingLimit |-> 0]>>

\* A key as list_signing_keys builds it.
NetworkKey(i, v) ==
    [index |-> i - 1, key |-> v.key, deposit_signature |-> v.depositSignature,
     used |-> FALSE]

NetworkRosters ==
    {[p \in 1..NumOps |->
        WithKeys(NetworkOperators[p],
                 [i \in 1..Len(ch[p]) |-> NetworkKey(i, ch[p][i])])] :
     ch \in RosterChoices}

\* The keys find_duplicates is probed with.
ProbeKeys == [index : 0..(MaxKeys - 1), key : PubKeys]

NoProbe == [index |-> 0, key |-> <<>>]

DupIdle ==
    dOps = <<>> /\ dOrig = All /\ dKey = NoProbe /\ dOut = <<>> /\ dStage = "off"

DupInit ==
    /\ dOps \in NetworkRosters
    /\ dOrig = All /\ dKey = NoProbe /\ dOut = <<>> /\ dStage = "loaded"

FindDuplicates(original_op, key) ==
    /\ dOrig' = original_op
    /\ dKey' = key
    /\ dOut' = find_duplicates(dOps, original_op, key)
    /\ dStage' = "probed"
    /\ UNCHANGED dOps

\* One call of find_duplicates on the loaded roster: for one of its
\* operators, or for "all".
Probe ==
    /\ dStage = "loaded"
    /\ \E original_op \in {All} \cup {dOps[p] : p \in 1..Len(dOps)},
          key \in ProbeKeys : FindDuplicates(original_op, key)

\* The checking loop of validate_network_keys over the loaded roster.
FindAllDuplicates ==
    /\ dStage = "loaded"
    /\ dOps' = check_keys(dOps, 1, 1)
    /\ dStage' = "scanned"
    /\ UNCHANGED <<dOrig, dKey, dOut>>

(***************************************************************************)
(* The cache operations step by step: the handle is opened, check_wc runs, *)
(* the body of the with block runs (one store write per step in            *)
(* save_keys_to_cache), and the with block is left.  The registry holds    *)
(* one roster while the operations run.                                    *)
(***************************************************************************)
StepIdle ==
    /\ sPc = "idle" /\ sOp = "none" /\ sWc = <<>> /\ sRoster = <<>>
    /\ sTodo = <<>> /\ sOpen = 0 /\ sRes = "none" /\ sFirst = EmptyStore
    /\ sSecond = EmptyStore /\ sRun = "first"

\* with open_cache_file(chainId) as cache: of one of the three operations.
StepOpen ==
    /\ sPc = "idle"
    /\ \E o \in {"clear", "get", "save"}, w \in WCs :
          /\ sOp' = o
          /\ sWc' = IF o = "clear" THEN <<>> ELSE w
    /\ sOpen' = open_cache_file(sOpen)
    /\ sPc' = "opened" /\ sFirst' = cache /\ sRun' = "first"
    /\ UNCHANGED <<cache, sRoster, sTodo, sRes, sSecond>>

\* check_wc(cache, wc) in get_keys_from_cache and save_keys_to_cache.
StepCheck ==
    /\ sPc = "opened" /\ sOp \in {"get", "save"}
    /\ IF check_wc(cache, sWc)
       THEN /\ sPc' = "body"
            /\ sTodo' = IF sOp = "save" THEN save_writes(sWc, sRoster) ELSE <<>>
            /\ UNCHANGED sRes
       ELSE /\ sPc' = "raised" /\ sRes' = "StaleCache"
            /\ UNCHANGED sTodo
    /\ UNCHANGED <<cache, sOp, sWc, sRoster, sOpen, sFirst, sSecond, sRun>>

\* The loop of clear_keys_cache.
StepClear ==
    /\ sPc = "opened" /\ sOp = "clear"
    /\ cache' = clear_keys_cache(cache)
    /\ sPc' = "leaving"
    /\ UNCHANGED <<sOp, sWc, sRoster, sTodo, sOpen, sRes, sFirst, sSecond, sRun>>

\* The loops of get_keys_from_cache.
StepRead ==
    /\ sPc = "body" /\ sOp = "get"
    /\ sPc' = "leaving"
    /\ UNCHANGED <<cache, sOp, sWc, sRoster, sTodo, sOpen, sRes, sFirst, sSecond, sRun>>

\* One store write of save_keys_to_cache.
StepWrite ==
    /\ sPc = "body" /\ sOp = "save"
    /\ cache' = Put(cache, Head(sTodo).k, Head(sTodo).v)
    /\ sTodo' = Tail(sTodo)
    /\ sPc' = IF Tail(sTodo) = <<>> THEN "leaving" ELSE "body"
    /\ UNCHANGED <<sOp, sWc, sRoster, sOpen, sRes, sFirst, sSecond, sRun>>

\* save_keys_to_cache is interrupted between two of its writes.
StepInterrupt ==
    /\ sPc = "body" /\ sOp = "save" /\ sRun = "first"
    /\ sPc' = "raised" /\ sRes' = "Interrupted" /\ sTodo' = <<>>
    /\ UNCHANGED <<cache, sOp, sWc, sRoster, sOpen, sFirst, sSecond, sRun>>

\* The with block is left, by its end or by the exception raised in it.
StepLeave ==
    /\ sPc \in {"leaving", "raised"}
    /\ sOpen' = leave_with(sOpen, sPc = "raised")
    /\ sRes' = IF sPc = "leaving" THEN "ok" ELSE sRes
    /\ sPc' = "done"
    /\ UNCHANGED <<cache, sOp, sWc, sRoster, sTodo, sFirst, sSecond, sRun>>

\* save_keys_to_cache is run again with the same arguments: after an
\* interrupt ("retry"), or after it has completed ("repeat").
StepAgain ==
    /\ sPc = "done" /\ sOp = "save" /\ sRun = "first"
    /\ sRes \in {"Interrupted", "ok"}
    /\ sRun' = IF sRes = "Interrupted" THEN "retry" ELSE "repeat"
    /\ sSecond' = cache
    /\ sOpen' = open_cache_file(sOpen)
    /\ sPc' = "opened" /\ sRes' = "none"
    /\ UNCHANGED <<cache, sOp, sWc, sRoster, sTodo, sFirst>>

\* The caller goes on after the operation.
StepReturn ==
    /\ sPc = "done"
    /\ sPc' = "idle" /\ sOp' = "none" /\ sWc' = <<>> /\ sTodo' = <<>>
    /\ sRes' = "none" /\ sFirst' = EmptyStore /\ sSecond' = EmptyStore
    /\ sRun' = "first"
    /\ UNCHANGED <<cache, sRoster, sOpen>>

(***************************************************************************)
(* Runs of validate_network_keys_fast, one at a time, on one store.  The   *)
(* registry holds one roster while the runs go on.                         *)
(***************************************************************************)
\* A used key of the registry.
UsedKey(i) ==
    [index |-> i - 1, key |-> <<1, 16>>, depositSignature |-> <<5>>, used |-> TRUE]

\* How many used keys each operator has.
UsedCounts == {u \in [1..NumOps -> 0..MaxUsed] : keys_len([p \in 1..NumOps |-> [keys |-> [i \in 1..u[p] |-> i]]]) <= MaxUsed}

\* The roster as the registry gives it: the used keys of each operator, then
\* its unused keys.
RegistryRoster(ch, u) ==
    [p \in 1..NumOps |->
        WithKeys(OperatorsData[p],
                 [i \in 1..u[p] |-> UsedKey(i)] \o
                 [i \in 1..Len(ch[p]) |-> LiveKey(u[p] + i, ch[p][i])])]

RegistryRosters == {RegistryRoster(ch, u) : ch \in RosterChoices, u \in UsedCounts}

NoEntry == <<>>

FastIdle ==
    /\ fStage = "idle" /\ fClear = FALSE /\ fWc = <<>> /\ fOperators = <<>>
    /\ fFound = NoEntry /\ fStore = EmptyStore /\ fRes = "ok"
    /\ fUsed = <<>> /\ fUnused = <<>> /\ fCached = <<>> /\ fUncached = <<>>
    /\ fValidated = <<>> /\ fMerged = <<>>

ValidateNetworkKeysFast(w, clear_cache) ==
    /\ \E run \in {validate_network_keys_fast(cache, fOperators, w, clear_cache)} :
           /\ cache' = run.cache
           /\ fStore' = run.store
           /\ fRes' = run.res
           /\ fUsed' = run.used
           /\ fUnused' = run.unused
           /\ fCached' = run.cached
           /\ fUncached' = run.uncached
           /\ fValidated' = run.validated
           /\ fMerged' = run.merged
    /\ fStage' = "done" /\ fClear' = clear_cache /\ fWc' = w
    /\ fFound' = IF WcKey \in DOMAIN cache THEN cache[WcKey] ELSE NoEntry
    /\ UNCHANGED fOperators

\* A run with any flag and any live credentials.
FastRun ==
    /\ fStage = "idle"
    /\ \E w \in WCs, clear_cache \in BOOLEAN :
          ValidateNetworkKeysFast(w, clear_cache)

\* The process of the run has ended.
FastEnd ==
    /\ fStage = "done"
    /\ fStage' = "idle" /\ fClear' = FALSE /\ fWc' = <<>>
    /\ fFound' = NoEntry /\ fStore' = EmptyStore /\ fRes' = "ok"
    /\ fUsed' = <<>> /\ fUnused' = <<>> /\ fCached' = <<>> /\ fUncached' = <<>>
    /\ fValidated' = <<>> /\ fMerged' = <<>>
    /\ UNCHANGED <<cache, fOperators>>

(***************************************************************************)
(* Specifications.                                                         *)
(***************************************************************************)
Init == CacheInit /\ MergeIdle /\ DupIdle /\ StepIdle /\ FastIdle

Next ==
    \/ /\ Clear
       /\ written' = <<>>
       /\ UNCHANGED <<mergeVars, dupVars, stepVars, fastVars>>
    \/ Get /\ UNCHANGED <<mergeVars, dupVars, stepVars, fastVars, histVars>>
    \/ GetSaved /\ UNCHANGED <<mergeVars, dupVars, stepVars, fastVars, histVars>>
    \/ /\ Save
       /\ written' = IF res' = "ok"
                     THEN record_writers(written, wc', operators')
                     ELSE written
       /\ UNCHANGED <<mergeVars, dupVars, stepVars, fastVars>>
    \/ Return /\ UNCHANGED <<mergeVars, dupVars, stepVars, fastVars, histVars>>

\* The cache operations on one store.
Spec == Init /\ [][Next]_vars

MergeNext ==
    \/ MergeCall /\ UNCHANGED <<cacheVars, dupVars, stepVars, fastVars, histVars>>
    \/ MergeReturn /\ UNCHANGED <<cacheVars, dupVars, stepVars, fastVars, histVars>>

\* merge_keys on every input.
SpecMerge == Init /\ [][MergeNext]_vars

DupNext ==
    \/ Probe /\ UNCHANGED <<cacheVars, mergeVars, stepVars, fastVars, histVars>>
    \/ FindAllDuplicates /\ UNCHANGED <<cacheVars, mergeVars, stepVars, fastVars, histVars>>

\* The duplicate detector on every roster.
InitDup == CacheInit /\ MergeIdle /\ DupInit /\ StepIdle /\ FastIdle

SpecDup == InitDup /\ [][DupNext]_vars

\* The variables of the atomic cache operations other than the store.
callVars == <<op, wc, operators, res, cached, uncached, lookups, pre, saved>>

StepNext ==
    \/ StepOpen /\ UNCHANGED <<callVars, mergeVars, dupVars, fastVars, histVars>>
    \/ StepCheck /\ UNCHANGED <<callVars, mergeVars, dupVars, fastVars, histVars>>
    \/ StepClear /\ UNCHANGED <<callVars, mergeVars, dupVars, fastVars, histVars>>
    \/ StepRead /\ UNCHANGED <<callVars, mergeVars, dupVars, fastVars, histVars>>
    \/ StepWrite /\ UNCHANGED <<callVars, mergeVars, dupVars, fastVars, histVars>>
    \/ StepInterrupt /\ UNCHANGED <<callVars, mergeVars, dupVars, fastVars, histVars>>
    \/ StepLeave /\ UNCHANGED <<callVars, mergeVars, dupVars, fastVars, histVars>>
    \/ StepAgain /\ UNCHANGED <<callVars, mergeVars, dupVars, fastVars, histVars>>
    \/ StepReturn /\ UNCHANGED <<callVars, mergeVars, dupVars, fastVars, histVars>>

\* The registry holds any roster; no operation has run on the store.
InitSteps ==
    /\ CacheInit /\ MergeIdle /\ DupIdle /\ FastIdle
    /\ sPc = "idle" /\ sOp = "none" /\ sWc = <<>>
    /\ sRoster \in ValidatedRosters
    /\ sTodo = <<>> /\ sOpen = 0 /\ sRes = "none" /\ sFirst = EmptyStore
    /\ sSecond = EmptyStore /\ sRun = "first"

\* The cache operations step by step on one store.
SpecSteps == InitSteps /\ [][StepNext]_vars

FastNext ==
    \/ FastRun /\ UNCHANGED <<callVars, mergeVars, dupVars, stepVars, histVars>>
    \/ FastEnd /\ UNCHANGED <<callVars, mergeVars, dupVars, stepVars, histVars>>

\* The registry holds any roster; no run has used the store.
InitFast ==
    /\ CacheInit /\ MergeIdle /\ DupIdle /\ StepIdle
    /\ fStage = "idle" /\ fClear = FALSE /\ fWc = <<>>
    /\ fOperators \in RegistryRosters
    /\ fFound = NoEntry /\ fStore = EmptyStore /\ fRes = "ok"
    /\ fUsed = <<>> /\ fUnused = <<>> /\ fCached = <<>> /\ fUncached = <<>>
    /\ fValidated = <<>> /\ fMerged = <<>>

\* Runs of validate_network_keys_fast on one store.
SpecFast == InitFast /\ [][FastNext]_vars

(***************************************************************************)
(* Properties of the cache operations.                                     *)
(***************************************************************************)
\* The entry a store coherent with withdrawal credentials w holds under "wc".
Fingerprint(w) == Encode(Hex(w))

\* The store the operation found is non-empty and its wc entry is not w's.
Mismatched(c, w) == c # EmptyStore /\ c[WcKey] # Fingerprint(w)

\* The elements of seq at the positions in S, in their order in seq.
RECURSIVE PickSeq(_, _, _)
PickSeq(seq, S, i) ==
    IF i > Len(seq) THEN <<>>
    ELSE IF i \in S THEN <<seq[i]>> \o PickSeq(seq, S, i + 1)
    ELSE PickSeq(seq, S, i + 1)

\* Keys without the valid_signature annotation.
StripKeys(keys) ==
    [i \in 1..Len(keys) |->
        [f \in (DOMAIN keys[i]) \ {"valid_signature"} |-> keys[i][f]]]

\* The operator without its keys.
Meta(operator) == [f \in (DOMAIN operator) \ {"keys"} |-> operator[f]]

\* The key with this index among keys, if any.
HasIndex(keys, idx) == \E i \in 1..Len(keys) : keys[i].index = idx
AtIndex(keys, idx) == keys[CHOOSE i \in 1..Len(keys) : keys[i].index = idx]

\* C1: check_wc fails if and only if the store is non-empty and its wc entry
\* differs from the hex encoding of the live withdrawal credentials (a
\* non-empty store always has a wc entry); on an empty store it succeeds for
\* every withdrawal-credentials value.
C1_CheckCoherency ==
    op \in {"get", "save"} =>
        /\ pre # EmptyStore => WcKey \in DOMAIN pre
        /\ (res = "StaleCache") <=> Mismatched(pre, wc)
        /\ pre = EmptyStore => res = "ok"

C1_Witness ==
    /\ op = "save" /\ res = "StaleCache"
    /\ Cardinality(DOMAIN pre) > 1 /\ pre[WcKey] # Fingerprint(wc)

\* C2: on a non-empty store whose wc entry mismatches, get_keys_from_cache
\* fails before any record is looked up and yields no roster at all, and
\* save_keys_to_cache fails leaving the store as it was.
C2_AtomicRejection ==
    (op \in {"get", "save"} /\ Mismatched(pre, wc)) =>
        /\ res = "StaleCache"
        /\ cache = pre
        /\ op = "get" => lookups = <<>> /\ cached = <<>> /\ uncached = <<>>

C2_Witness ==
    /\ op = "get" /\ Mismatched(pre, wc) /\ res = "StaleCache"
    /\ \E p \in 1..Len(operators) : \E i \in 1..Len(operators[p].keys) :
          Hex(operators[p].keys[i].key) \in DOMAIN pre

\* C3: on a coherent cache get_keys_from_cache returns two rosters with the
\* operators of the input in the same order; every input key is in exactly
\* one of them, in its original relative order within its operator, so the
\* key counts add up.
C3_Partition ==
    (op = "get" /\ res = "ok") =>
        /\ Len(cached) = Len(operators) /\ Len(uncached) = Len(operators)
        /\ \A p \in 1..Len(operators) :
              /\ Meta(cached[p]) = Meta(operators[p])
              /\ Meta(uncached[p]) = Meta(operators[p])
              /\ \E S \in SUBSET (1..Len(operators[p].keys)) :
                    /\ StripKeys(cached[p].keys) = PickSeq(operators[p].keys, S, 1)
                    /\ uncached[p].keys =
                          PickSeq(operators[p].keys,
                                  (1..Len(operators[p].keys)) \ S, 1)
        /\ keys_len(cached) + keys_len(uncached) = keys_len(operators)

C3_Witness ==
    /\ op = "get" /\ res = "ok"
    /\ \E p \in 1..Len(operators) :
          /\ Len(operators[p].keys) >= 2
          /\ Len(cached[p].keys) = 1 /\ Len(uncached[p].keys) = 1

\* C4: a key is in the cached roster only if a record exists under its hex
\* public key whose depositSignature equals the key's; a record with another
\* depositSignature makes a miss of that key only: the key is in the uncached
\* roster and the keys after it are still looked up.
C4_ValidHit ==
    (op = "get" /\ res = "ok") =>
        /\ lookups = [i \in 1..keys_len(operators) |-> Hex(AllKeys(operators)[i].key)]
        /\ \A p \in 1..Len(operators) : \A i \in 1..Len(operators[p].keys) :
              LET key == operators[p].keys[i]
                  hit == /\ Hex(key.key) \in DOMAIN pre
                         /\ pre[Hex(key.key)].depositSignature =
                               Hex(key.depositSignature)
              IN  /\ hit <=> HasIndex(cached[p].keys, key.index)
                  /\ ~hit <=> HasIndex(uncached[p].keys, key.index)

C4_Witness ==
    /\ op = "get" /\ res = "ok"
    /\ \E p \in 1..Len(operators) :
          /\ Len(operators[p].keys) >= 2
          /\ Hex(operators[p].keys[1].key) \in DOMAIN pre
          /\ pre[Hex(operators[p].keys[1].key)].depositSignature #
                Hex(operators[p].keys[1].depositSignature)
          /\ HasIndex(uncached[p].keys, operators[p].keys[1].index)
          /\ HasIndex(cached[p].keys, operators[p].keys[2].index)

\* The last key of a roster, in the order it is saved, with this public key.
LastWithKey(ops, pubkey) ==
    LET all == AllKeys(ops)
        last == CHOOSE i \in 1..Len(all) :
                    /\ all[i].key = pubkey
                    /\ \A j \in (i + 1)..Len(all) : all[j].key # pubkey
    IN  all[last]

\* C5 as claimed: every key of a roster saved by save_keys_to_cache is put in
\* the cached roster by a following get_keys_from_cache of the same roster
\* under the same withdrawal credentials, with the valid_signature it was
\* saved with.
C5_RoundTripEveryKey ==
    (op = "get" /\ saved # <<>>) =>
        /\ res = "ok"
        /\ \A p \in 1..Len(saved) : \A i \in 1..Len(saved[p].keys) :
              /\ HasIndex(cached[p].keys, saved[p].keys[i].index)
              /\ AtIndex(cached[p].keys, saved[p].keys[i].index).valid_signature
                    = saved[p].keys[i].valid_signature

\* C5 amended: the store holds one record for each public key, the one of the
\* last key saved with it.  A key of the saved roster is put in the cached
\* roster exactly when its depositSignature is that of the last key of the
\* roster with its public key, and then with the valid_signature of that last
\* key: its own whenever no later key of the roster has its public key.
C5_RoundTrip ==
    (op = "get" /\ saved # <<>>) =>
        /\ res = "ok"
        /\ \A p \in 1..Len(saved) : \A i \in 1..Len(saved[p].keys) :
              LET key == saved[p].keys[i]
                  last == LastWithKey(saved, key.key)
              IN  /\ HasIndex(cached[p].keys, key.index)
                        <=> last.depositSignature = key.depositSignature
                  /\ HasIndex(cached[p].keys, key.index) =>
                        AtIndex(cached[p].keys, key.index).valid_signature
                            = last.valid_signature
                  /\ last = key =>
                        /\ HasIndex(cached[p].keys, key.index)
                        /\ AtIndex(cached[p].keys, key.index) = key

C5_Witness ==
    /\ op = "get" /\ saved # <<>> /\ res = "ok"
    /\ keys_len(saved) = 2 /\ keys_len(cached) = 2
    /\ \E p \in 1..Len(saved) : \E i \in 1..Len(saved[p].keys) :
          ~saved[p].keys[i].valid_signature

\* C6: on an empty store check_wc succeeds for any withdrawal credentials;
\* the first save_keys_to_cache with W stores W's fingerprint under wc, also
\* for a roster without keys; from then on, until the store is cleared, the
\* fingerprint stays and every get_keys_from_cache or save_keys_to_cache with
\* other credentials fails and leaves the store alone.
C6_FingerprintLifecycle ==
    [][/\ (cache = EmptyStore /\ op' \in {"get", "save"}) => res' = "ok"
       /\ (cache = EmptyStore /\ op' = "save") =>
              /\ WcKey \in DOMAIN cache'
              /\ cache'[WcKey] = Fingerprint(wc')
       /\ \A W \in WCs :
              (WcKey \in DOMAIN cache /\ cache[WcKey] = Fingerprint(W)
                    /\ op' # "clear") =>
                 /\ WcKey \in DOMAIN cache' /\ cache'[WcKey] = Fingerprint(W)
                 /\ (op' \in {"get", "save"} /\ wc' # W) =>
                        res' = "StaleCache" /\ cache' = cache]_vars

C6_Witness ==
    /\ op = "get" /\ res = "StaleCache"
    /\ DOMAIN pre = {WcKey}

(***************************************************************************)
(* Properties of merge_keys.                                               *)
(***************************************************************************)
\* The lengths of the sequences of a sequence, added up.
RECURSIVE SumLen(_)
SumLen(ls) == IF ls = <<>> THEN 0 ELSE Len(Head(ls)) + SumLen(Tail(ls))

\* The ids of a roster's operators, in order.
Ids(ops) == [p \in 1..Len(ops) |-> ops[p].id]

\* The rosters have the same operators in the same order.
Aligned(lists) == \A l \in 1..Len(lists) : Ids(lists[l]) = Ids(lists[1])

\* C7: merge_keys of rosters that share operator identity and order yields
\* the same operators in the same order, the keys at every operator position
\* being the keys of the rosters at that position concatenated in the order
\* of the rosters; so merging [A, B, C] at once, [merge [A, B], C] and
\* [A, merge [B, C]] give the same roster.
C7_MergeConcatenates ==
    (mStage = "done" /\ Len(mLists) >= 1 /\ Aligned(mLists)) =>
        /\ mOut.error = ""
        /\ Ids(mOut.value) = Ids(mLists[1])
        /\ \A p \in 1..Len(mLists[1]) :
              /\ Meta(mOut.value[p]) = Meta(mLists[1][p])
              /\ Len(mLists) = 3 =>
                    mOut.value[p].keys =
                        mLists[1][p].keys \o mLists[2][p].keys \o mLists[3][p].keys
              /\ Len(mOut.value[p].keys) =
                    SumLen([l \in 1..Len(mLists) |-> mLists[l][p].keys])
              /\ \A l \in 1..Len(mLists) :
                    SubSeq(mOut.value[p].keys,
                           SumLen([k \in 1..(l - 1) |-> mLists[k][p].keys]) + 1,
                           SumLen([k \in 1..l |-> mLists[k][p].keys]))
                        = mLists[l][p].keys
        /\ Len(mLists) = 3 =>
              /\ merge_keys(<<merge_keys(<<mLists[1], mLists[2]>>).value,
                              mLists[3]>>) = mOut
              /\ merge_keys(<<mLists[1],
                              merge_keys(<<mLists[2], mLists[3]>>).value>>) = mOut

C7_Witness ==
    /\ mStage = "done" /\ Len(mLists) = 3 /\ Aligned(mLists)
    /\ Len(mLists[1]) = 2
    /\ \A l \in 1..3 : Len(mLists[l][2].keys) >= 1
    /\ mLists[1][2].keys # mLists[2][2].keys
    /\ Len(mOut.value[2].keys) >= 4

\* C8: merge_keys fails whenever its rosters differ in the number of
\* operators or in the operator id at some position; it never returns a
\* merged roster for such rosters.
C8_MergeRejectsMismatch ==
    (mStage = "done" /\ Len(mLists) >= 1 /\ ~Aligned(mLists)) => mOut.error # ""

(***************************************************************************)
(* Properties of the duplicate detector.                                   *)
(***************************************************************************)
\* Every (operator, key) of a roster, in the order find_duplicates scans it.
RECURSIVE Slots(_)
Slots(ops) ==
    IF ops = <<>> THEN <<>>
    ELSE [i \in 1..Len(Head(ops).keys) |-> [op |-> Head(ops), key |-> Head(ops).keys[i]]]
         \o Slots(Tail(ops))

\* The slot is the one the probe comes from.
OwnSlot(slot) ==
    dOrig # All /\ slot.op.id = dOrig.id /\ slot.key.index = dKey.index

\* C9: find_duplicates returns, in scan order, exactly the entries whose key
\* bytes equal the probe's, leaving one out if and only if the original
\* operator is not "all" and the entry is the probe's own slot (same operator
\* id and same key index); an equal key of the same operator at another
\* index is reported, and with "all" every equal key is reported.
C9_FindDuplicates ==
    dStage = "probed" =>
        dOut = SelectSeq(Slots(dOps),
                         LAMBDA slot : slot.key.key = dKey.key /\ ~OwnSlot(slot))

C9_Witness ==
    /\ dStage = "probed" /\ dOrig # All
    /\ \E n \in 1..Len(dOut) :
          dOut[n].op.id = dOrig.id /\ dOut[n].key.index # dKey.index
    /\ \E slot \in {Slots(dOps)[n] : n \in 1..Len(Slots(dOps))} :
          slot.key.key = dKey.key /\ OwnSlot(slot)

\* Slot x lists slot y among its duplicates.
Lists(x, y) ==
    \E n \in 1..Len(x.key.duplicates) :
        /\ x.key.duplicates[n].op_id = y.op.id
        /\ x.key.duplicates[n].op_name = y.op.name
        /\ x.key.duplicates[n].index = y.key.index

\* The number of matches recorded over the roster.
RECURSIVE MatchCount(_)
MatchCount(slots) ==
    IF slots = <<>> THEN 0
    ELSE Len(Head(slots).key.duplicates) + MatchCount(Tail(slots))

\* C10: after the checking loop the matches are symmetric: a slot lists
\* another (by operator id, operator name and key index) if and only if the
\* other lists it; every key has duplicate = (its duplicates are not empty);
\* and two operators with one key each of equal bytes give two matches.
C10_SymmetricMatches ==
    dStage = "scanned" =>
        LET slots == Slots(dOps)
            S == {slots[n] : n \in 1..Len(slots)}
        IN  /\ \A x \in S : \A y \in S :
                  /\ Lists(x, y) <=> Lists(y, x)
                  /\ Lists(x, y) <=>
                        /\ x.key.key = y.key.key
                        /\ <<x.op.id, x.key.index>> # <<y.op.id, y.key.index>>
            /\ \A x \in S : x.key.duplicate <=> (Len(x.key.duplicates) > 0)
            /\ (/\ \A p \in 1..Len(dOps) : Len(dOps[p].keys) = 1
                /\ Len(dOps) = 2
                /\ dOps[1].keys[1].key = dOps[2].keys[1].key)
                  => /\ MatchCount(slots) = 2
                     /\ dOps[1].keys[1].duplicates[1].op_id = dOps[2].id
                     /\ dOps[2].keys[1].duplicates[1].op_id = dOps[1].id

C10_Witness ==
    /\ dStage = "scanned"
    /\ Len(dOps) = 2
    /\ \A p \in 1..Len(dOps) : Len(dOps[p].keys) = 1
    /\ dOps[1].keys[1].key = dOps[2].keys[1].key
    /\ dOps[1].keys[1].duplicate /\ dOps[2].keys[1].duplicate

(***************************************************************************)
(* Properties of the cache operations step by step.                        *)
(***************************************************************************)
\* C11: every cache operation (clear, get, save) releases the store handle
\* it opened on every exit path: once the operation has ended, by returning
\* or by the stale-cache failure raised inside its with block, no handle is
\* open; while it runs inside the block exactly its own handle is open.
C11_HandleReleased ==
    /\ sPc \in {"done", "idle"} => sOpen = 0
    /\ sPc \in {"opened", "body", "leaving", "raised"} => sOpen = 1

\* A get or save has ended by the stale-cache failure and no handle is open.
C11_Witness ==
    /\ sPc = "done" /\ sRes = "StaleCache" /\ sOp \in {"get", "save"}
    /\ sOpen = 0

\* C12: a save interrupted after any number of its writes and run again to
\* completion with the same credentials and roster leaves the store as one
\* uninterrupted save of the store first found would; the second run never
\* fails check_wc; and a save repeated after it completed leaves the store
\* as the repeat found it.
C12_SaveIdempotent ==
    /\ sRun \in {"retry", "repeat"} => sRes # "StaleCache"
    /\ sPc = "done" /\ sRun = "retry" =>
          /\ sRes = "ok"
          /\ cache = save_keys_to_cache(sFirst, sWc, sRoster).cache
    /\ sPc = "done" /\ sRun = "repeat" =>
          /\ sRes = "ok"
          /\ cache = sSecond

\* A save that found records in the store was interrupted after the wc
\* entry and some but not all of its key writes, and its retry has completed.
C12_Witness ==
    /\ sPc = "done" /\ sRun = "retry" /\ sRes = "ok"
    /\ Cardinality(DOMAIN sFirst) > 1
    /\ sSecond # sFirst
    /\ sSecond # cache
    /\ sSecond # Put(sFirst, WcKey, Encode(Hex(sWc)))

(***************************************************************************)
(* Properties of validate_network_keys_fast.                               *)
(***************************************************************************)
\* How many times key k occurs among keys, valid_signature set aside.
Occurrences(keys, k) ==
    Cardinality({j \in 1..Len(keys) : StripKeys(keys)[j] = k})

\* The store holds a record for key k with k's deposit signature.
Hit(c, k) ==
    /\ Hex(k.key) \in DOMAIN c
    /\ parse_key(c[Hex(k.key)]).depositSignature = k.depositSignature

\* C13: in a run of validate_network_keys_fast that comes to its end, every
\* key of the input roster is in exactly one of the used, cached and uncached
\* rosters, under its operator: in the used one when it is used, else in the
\* cached one when the store holds its record with its signature, else in
\* the uncached one; the roster validated and saved is the uncached one, so
\* it has no used key and the store changes only under the wc entry and the
\* uncached keys; and the merged roster has the operators of the input, each
\* with every key index of the input exactly once and the same key under it.
C13_ThreeTiers ==
    fStage = "done" /\ fRes = "ok" =>
        /\ \A p \in 1..Len(fOperators) :
              \A i \in 1..Len(fOperators[p].keys) :
                 LET k == fOperators[p].keys[i]
                     u == Occurrences(fUsed[p].keys, k)
                     c == Occurrences(fCached[p].keys, k)
                     n == Occurrences(fUncached[p].keys, k)
                 IN  /\ u + c + n = 1
                     /\ u = 1 <=> k.used = TRUE
                     /\ c = 1 <=> k.used # TRUE /\ Hit(fStore, k)
                     /\ n = 1 <=> k.used # TRUE /\ ~Hit(fStore, k)
        /\ keys_len(fUsed) + keys_len(fCached) + keys_len(fUncached)
              = keys_len(fOperators)
        /\ Strip(fValidated) = fUncached
        /\ \A p \in 1..Len(fValidated) :
              \A i \in 1..Len(fValidated[p].keys) :
                 /\ fValidated[p].keys[i].used # TRUE
                 /\ "valid_signature" \in DOMAIN fValidated[p].keys[i]
        /\ \A x \in DOMAIN cache :
              (x \notin DOMAIN fStore \/ cache[x] # fStore[x]) =>
                 \/ x = WcKey
                 \/ \E i \in 1..Len(AllKeys(fUncached)) :
                       Hex(AllKeys(fUncached)[i].key) = x
        /\ Len(fMerged) = Len(fOperators)
        /\ \A p \in 1..Len(fOperators) :
              /\ Meta(fMerged[p]) = Meta(fOperators[p])
              /\ Len(fMerged[p].keys) = Len(fOperators[p].keys)
              /\ \A i \in 1..Len(fOperators[p].keys) :
                    Occurrences(fMerged[p].keys, fOperators[p].keys[i]) = 1

\* A run has ended in which one operator has a used key, a key found in the
\* store and a key that had to be validated, merged in that order.
C13_Witness ==
    /\ fStage = "done" /\ fRes = "ok"
    /\ \E p \in 1..Len(fOperators) :
          /\ Len(fUsed[p].keys) = 1
          /\ Len(fCached[p].keys) = 1
          /\ Len(fUncached[p].keys) = 1
          /\ fUncached[p].keys[1].index < fCached[p].keys[1].index
          /\ Len(fMerged[p].keys) = 3
          /\ Hex(fUncached[p].keys[1].key) \in DOMAIN cache

(***************************************************************************)
(* Properties of the store over sequences of cache operations.             *)
(***************************************************************************)
\* C14: after any sequence of clear, get and save calls the store is empty
\* or has a wc entry, and every key record in it was written by a save whose
\* withdrawal credentials are those of the wc entry: records written under
\* two different withdrawal credentials are never in the store together.
C14_OneFingerprint ==
    \/ cache = EmptyStore
    \/ /\ WcKey \in DOMAIN cache
       /\ \A k \in (DOMAIN cache) \ {WcKey} :
             /\ k \in DOMAIN written
             /\ Fingerprint(written[k]) = cache[WcKey]

\* A save was refused on a store that holds records of other credentials.
C14_Witness ==
    /\ op = "save" /\ res = "StaleCache"
    /\ Cardinality(DOMAIN cache) > 1
    /\ \A k \in (DOMAIN cache) \ {WcKey} : written[k] # wc

\* C15: a run of validate_network_keys_fast with the clear_cache flag never
\* ends in the stale-cache failure, whatever the store held and whatever the
\* live withdrawal credentials are: the store get_keys_from_cache finds is
\* empty, every unused key is reported uncached and none cached, and the
\* save succeeds and leaves the wc entry equal to the hex of the live
\* credentials, with records of the unused keys only.
C15_ClearNeverStale ==
    fStage = "done" /\ fClear =>
        /\ fRes = "ok"
        /\ fStore = EmptyStore
        /\ fUncached = fUnused
        /\ keys_len(fCached) = 0
        /\ WcKey \in DOMAIN cache
        /\ cache[WcKey] = Fingerprint(fWc)
        /\ (DOMAIN cache) \ {WcKey}
              = {Hex(AllKeys(fUnused)[i].key) : i \in 1..Len(AllKeys(fUnused))}

\* A run with the flag has ended on a store that held key records under
\* other withdrawal credentials, with unused keys to validate.
C15_Witness ==
    /\ fStage = "done" /\ fClear /\ fRes = "ok"
    /\ fFound # NoEntry
    /\ fFound # Fingerprint(fWc)
    /\ keys_len(fUnused) > 0
    /\ keys_len(fUsed) > 0

====
